---- MODULE Spec2Model ----
(***************************************************************************)
(* Reflection tree manager of the Reflection-Journal application           *)
(* (src/src/managers.py, class ReflectionManager) as a state machine.      *)
(*                                                                         *)
(* One ReflectionManager instance: original_entry_id and the dict          *)
(* reflection_entries.  Every public operation is one action; `last`       *)
(* records the operation that ran last: its argument, its return value,    *)
(* whether it raised, whether it called the analysis client, what the      *)
(* client answered, and the children the entry had when it was deleted.    *)
(*                                                                         *)
(* Around the manager: the JournalManager (summary_entry, insights), the   *)
(* browser sessions of src/src/streamlit_app.py (current_entry_id) and the *)
(* reflection table of the backend (rows, src/backend/routers).  Each has  *)
(* its own specification over the calls that grow the tree.                *)
(***************************************************************************)
EXTENDS Integers, Sequences, FiniteSets, TLC

(***************************************************************************)
(* Bounds                                                                  *)
(***************************************************************************)
\* number of uuids the model hands out (ids are 1..MaxNodes, never reused)
MaxNodes == 3

(***************************************************************************)
(* Values                                                                  *)
(***************************************************************************)
\* Python None for Optional[str] fields holding text
None == "None"
\* Python None for Optional[str] fields holding an id
NoId == 0

Ids == 1..MaxNodes

\* ids a caller may pass; an id not handed out yet or already deleted is absent
ArgIds == Ids

\* entries of the question bank that seed a root
QuestionEntries ==
    { [question |-> "q1", language |-> "es"] }

\* answers a caller may store; "" is an empty answer
Answers == {"", "a"}

Beliefs ==
    { [belief_type |-> "Assumption", statement |-> "s1", challenge_question |-> "cq1"],
      [belief_type |-> "Blind Spot", statement |-> "s2", challenge_question |-> "cq2"] }

\* a belief whose challenge question is empty
EmptyQuestionBelief ==
    [belief_type |-> "Contradiction", statement |-> "s3", challenge_question |-> ""]

\* the belief lists a reply may carry: every list of distinct beliefs
BeliefLists ==
    { f \in UNION { [1..n -> Beliefs] : n \in 0..Cardinality(Beliefs) } :
        \A i, j \in DOMAIN f : f[i] = f[j] => i = j }

\* analyze_reflection returned None
NoAnalysis == [ok |-> FALSE, themes |-> <<>>, sentiment |-> "Neutral", beliefs |-> <<>>]

\* analyze_reflection returned a parsed ReflectionAnalysis
Analyses ==
    [ok : {TRUE}, themes : {<<>>, <<"work">>}, sentiment : {"Positive"}, beliefs : BeliefLists]

ClientReplies == Analyses \cup {NoAnalysis}

\* parsed analyses one of whose beliefs has an empty challenge question
RaisingReplies ==
    [ok : {TRUE}, themes : {<<"work">>}, sentiment : {"Positive"},
     beliefs : { <<EmptyQuestionBelief>> } \cup
               { <<b, EmptyQuestionBelief>> : b \in Beliefs }]

\* analyze_report returned None
NoReport == [ok |-> FALSE, main_question |-> "", answer_summary |-> "", insights |-> <<>>]

\* analyze_report returned a parsed ReportAnalysis
ReportAnalyses ==
    [ok : {TRUE}, main_question : {"mq"}, answer_summary : {"sum"},
     insights : {<<>>, <<"i1">>}]

ReportReplies == ReportAnalyses \cup {NoReport}

\* JournalManager.summary_entry = None
NoSummary == [id |-> NoId]

\* browser sessions of the Streamlit application
Sessions == {"s1", "s2"}

\* authenticated users of the backend
Users == {"u1", "u2"}

VARIABLES original_entry_id, reflection_entries, nextId, last,
          summary_entry, insights, current_entry_id, rows,
          links, goals, topic, pending

\* the ReflectionManager: its two attributes and the uuids handed out so far
manager == <<original_entry_id, reflection_entries, nextId>>

\* the JournalManager's own attributes
journal == <<summary_entry, insights>>

\* what a call on the ReflectionManager never touches: the JournalManager,
\* the browser sessions' current_entry_id and the backend's reflection table
outside == <<summary_entry, insights, current_entry_id, rows,
            links, goals, topic, pending>>

\* the rest of the services: the backend's theme links and goals table, the
\* Pub/Sub topic of the AI worker, and the calls that have begun and not ended
services == <<links, goals, topic, pending>>

vars == <<original_entry_id, reflection_entries, nextId, last,
          summary_entry, insights, current_entry_id, rows,
          links, goals, topic, pending>>

(***************************************************************************)
(* ReflectionEntry                                                         *)
(***************************************************************************)
\* a ReflectionEntry with every optional field at its default
ReflectionEntry(id, question, language, context, context_type, parent_id) ==
    [ id           |-> id,
      question     |-> question,
      answer       |-> None,
      themes       |-> <<>>,
      sentiment    |-> "Neutral",
      context_type |-> context_type,
      context      |-> context,
      parent_id    |-> parent_id,
      children_ids |-> <<>>,
      language     |-> language ]

\* ReflectionEntry(**question_entry.model_dump()): the root built from a question
RootEntry(id, question_entry) ==
    ReflectionEntry(id, question_entry.question, question_entry.language, None, "Original", NoId)

TruthyNotNone(s) == s # None

\* Python truthiness of an Optional[str]: None and "" are false
Truthy(s) == s # None /\ s # ""

\* list.remove(x): drops the first occurrence of x
RECURSIVE Remove(_, _)
Remove(seq, x) ==
    IF seq = <<>> THEN <<>>
    ELSE IF Head(seq) = x THEN Tail(seq)
    ELSE <<Head(seq)>> \o Remove(Tail(seq), x)

Range(seq) == { seq[i] : i \in DOMAIN seq }

DelNothing(entries, id) == entries

\* del d[k]
Del(entries, id) == [ i \in (DOMAIN entries) \ {id} |-> entries[i] ]

\* d[k] = v
Put(entries, id, entry) ==
    [ i \in (DOMAIN entries) \cup {id} |-> IF i = id THEN entry ELSE entries[i] ]

(***************************************************************************)
(* Lookups                                                                 *)
(***************************************************************************)
\* the id of the parent entry, NoId when get_parent_by_id returns None
get_parent_by_id(entries, id) ==
    IF id \in DOMAIN entries
    THEN LET parent_id == entries[id].parent_id
         IN IF parent_id # NoId /\ parent_id \in DOMAIN entries THEN parent_id ELSE NoId
    ELSE NoId

(***************************************************************************)
(* delete_reflection_by_id                                                 *)
(***************************************************************************)
ReparentNoAppend(entries, parent, child) ==
    [entries EXCEPT ![child].parent_id = entries[parent].id]

ReparentKeepsParentId(entries, parent, child) ==
    [entries EXCEPT ![parent].children_ids = Append(@, entries[child].id)]

\* child.parent_id = parent.id; parent.children_ids.append(child.id)
Reparent(entries, parent, child) ==
    [entries EXCEPT ![child].parent_id = entries[parent].id,
                    ![parent].children_ids = Append(@, entries[child].id)]

RECURSIVE delete_reflection_by_id(_, _)
RECURSIVE DeleteChildren(_, _, _)

\* the loop over the children of the deleted entry: with a parent the child
\* moves up, without one the child is deleted in turn.  get_children_by_id
\* resolved the list before the loop; every id in it is a key of the dict
\* (ChildrenPresent below).
DeleteChildren(entries, parent, children) ==
    IF children = <<>> THEN entries
    ELSE LET child == Head(children)
             after ==
                 IF parent # NoId
                 THEN Reparent(entries, parent, child)
                 ELSE delete_reflection_by_id(entries, child)
         IN DeleteChildren(after, parent, Tail(children))

\* the dict after delete_reflection_by_id(id)
delete_reflection_by_id(entries, id) ==
    IF id \in DOMAIN entries
    THEN LET parent == get_parent_by_id(entries, id)
             detached ==
                 IF parent # NoId
                 THEN [entries EXCEPT ![parent].children_ids = Remove(@, id)]
                 ELSE entries
             children == detached[id].children_ids
         IN Del(DeleteChildren(detached, parent, children), id)
    ELSE entries

(***************************************************************************)
(* analyze_reflection_by_id                                                *)
(***************************************************************************)
\* ReflectionEntry(...) accepts the belief: its question is a non-empty string
Constructible(belief) == belief.challenge_question # ""

\* index of the first belief whose entry cannot be built, 0 if there is none
FirstBad(beliefs) ==
    LET bad == { k \in DOMAIN beliefs : ~Constructible(beliefs[k]) }
    IN IF bad = {} THEN 0 ELSE CHOOSE k \in bad : \A j \in bad : k <= j

\* the beliefs whose children are built before the loop ends or raises
Built(beliefs) ==
    IF FirstBad(beliefs) = 0 THEN beliefs ELSE SubSeq(beliefs, 1, FirstBad(beliefs) - 1)

ChildEntryNoParent(reflection, belief, fresh) ==
    ReflectionEntry(fresh, belief.challenge_question, reflection.language,
                    belief.statement, belief.belief_type, NoId)

ChildEntryKeepsThemes(reflection, belief, fresh) ==
    [ReflectionEntry(fresh, belief.challenge_question, reflection.language,
                     belief.statement, belief.belief_type, reflection.id)
        EXCEPT !.themes = reflection.themes]

ChildEntryAnswered(reflection, belief, fresh) ==
    [ReflectionEntry(fresh, belief.challenge_question, reflection.language,
                     belief.statement, belief.belief_type, reflection.id)
        EXCEPT !.answer = belief.statement]

\* the ReflectionEntry built for one belief
ChildEntry(reflection, belief, fresh) ==
    ReflectionEntry(fresh, belief.challenge_question, reflection.language,
                    belief.statement, belief.belief_type, reflection.id)

AddChildPrepend(entries, id, belief, fresh) ==
    LET new_reflection == ChildEntry(entries[id], belief, fresh)
        upserted == Put(entries, new_reflection.id, new_reflection)
    IN [upserted EXCEPT ![id].children_ids = <<new_reflection.id>> \o @]

\* one round of the loop: build the child, upsert it, append its id
AddChild(entries, id, belief, fresh) ==
    LET new_reflection == ChildEntry(entries[id], belief, fresh)
        upserted == Put(entries, new_reflection.id, new_reflection)
    IN [upserted EXCEPT ![id].children_ids = Append(@, new_reflection.id)]

RECURSIVE AddChildren(_, _, _, _)
\* the loop over analysis.beliefs, the k-th new entry taking the k-th fresh uuid
AddChildren(entries, id, beliefs, fresh) ==
    IF beliefs = <<>> THEN entries
    ELSE AddChildren(AddChild(entries, id, Head(beliefs), fresh), id, Tail(beliefs), fresh + 1)

\* "Skip if already analyzed"
AlreadyAnalyzed(reflection) ==
    reflection.themes # <<>> /\ Truthy(reflection.sentiment)

ApplyAnalysisMarksFailure(entries, id, analysis) ==
    IF ~analysis.ok THEN [entries EXCEPT ![id].themes = <<"failed">>]
    ELSE LET withResult == [entries EXCEPT ![id].themes = analysis.themes,
                                           ![id].sentiment = analysis.sentiment]
         IN AddChildren(withResult, id, Built(analysis.beliefs), nextId)

\* the dict after the client has answered: nothing on None, else themes and
\* sentiment are set and the children are built one by one
ApplyAnalysis(entries, id, analysis) ==
    IF ~analysis.ok THEN entries
    ELSE LET withResult == [entries EXCEPT ![id].themes = analysis.themes,
                                           ![id].sentiment = analysis.sentiment]
         IN AddChildren(withResult, id, Built(analysis.beliefs), nextId)

(***************************************************************************)
(* Actions                                                                 *)
(***************************************************************************)
Quiet == [op |-> "init", id |-> NoId, ret |-> FALSE, raised |-> FALSE,
          called |-> FALSE, reply |-> NoAnalysis, retry |-> FALSE, children |-> <<>>,
          node |-> NoId, nodes |-> <<>>, text |-> <<>>, stats |-> <<0, 0>>,
          report_reply |-> NoReport, who |-> "nobody"]

Init ==
    /\ original_entry_id = NoId
    /\ reflection_entries = << >>
    /\ nextId = 1
    /\ last = Quiet
    /\ summary_entry = NoSummary
    /\ insights = <<>>
    /\ current_entry_id = [s \in Sessions |-> NoId]
    /\ rows = << >>
    /\ links = {}
    /\ goals = << >>
    /\ topic = {}
    /\ pending = {}

\* upsert_reflection: the root reference after the call
UpsertRoot(id) == IF original_entry_id = NoId THEN id ELSE original_entry_id

\* upsert_reflection(question_entry): a QuestionEntry becomes a new ReflectionEntry
Seed(q) ==
    /\ nextId <= MaxNodes
    /\ original_entry_id' = UpsertRoot(nextId)
    /\ reflection_entries' = Put(reflection_entries, nextId, RootEntry(nextId, q))
    /\ nextId' = nextId + 1
    /\ last' = [Quiet EXCEPT !.op = "upsert", !.id = nextId, !.ret = TRUE]
    /\ UNCHANGED outside

\* the answer box of an entry, which is shown while the entry has no themes:
\* entry = get_reflection_by_id(id); entry.answer = a; upsert_reflection(entry)
SetAnswer(id, a) ==
    /\ id \in DOMAIN reflection_entries
    /\ reflection_entries[id].themes = <<>>
    /\ original_entry_id' = UpsertRoot(id)
    /\ reflection_entries' =
           Put(reflection_entries, id, [reflection_entries[id] EXCEPT !.answer = a])
    /\ UNCHANGED nextId
    /\ last' = [Quiet EXCEPT !.op = "upsert", !.id = id, !.ret = TRUE]
    /\ UNCHANGED outside

\* delete_reflection_by_id(id)
Delete(id) ==
    /\ reflection_entries' = delete_reflection_by_id(reflection_entries, id)
    /\ UNCHANGED <<original_entry_id, nextId>>
    /\ last' = [Quiet EXCEPT !.op = "delete", !.id = id,
                             !.ret = (id \in DOMAIN reflection_entries),
                             !.children = IF id \in DOMAIN reflection_entries
                                          THEN reflection_entries[id].children_ids
                                          ELSE <<>>]
    /\ UNCHANGED outside

\* analyze_reflection_by_id(id), the client answering `reply` if it is called
Analyze(id, reply) ==
    LET present == id \in DOMAIN reflection_entries
        answered == present /\ Truthy(reflection_entries[id].answer)
        skip == answered /\ AlreadyAnalyzed(reflection_entries[id])
        called == answered /\ ~skip
        raised == called /\ reply.ok /\ FirstBad(reply.beliefs) # 0
        retry == /\ called /\ last.op = "analyze" /\ last.id = id
                 /\ last.called /\ ~last.reply.ok
    IN /\ called => nextId + Len(Built(reply.beliefs)) - 1 <= MaxNodes
       /\ ~called => reply = NoAnalysis
       /\ reflection_entries' =
              IF called THEN ApplyAnalysis(reflection_entries, id, reply)
              ELSE reflection_entries
       /\ nextId' = IF called /\ reply.ok THEN nextId + Len(Built(reply.beliefs)) ELSE nextId
       /\ UNCHANGED original_entry_id
       /\ last' = [Quiet EXCEPT !.op = "analyze", !.id = id,
                                !.ret = (skip \/ (called /\ reply.ok /\ ~raised)),
                                !.raised = raised, !.called = called, !.reply = reply,
                                !.retry = retry]
       /\ UNCHANGED outside

Next ==
    \/ \E q \in QuestionEntries : Seed(q)
    \/ \E id \in ArgIds, a \in Answers : SetAnswer(id, a)
    \/ \E id \in ArgIds : Delete(id)
    \/ \E id \in ArgIds, reply \in ClientReplies : Analyze(id, reply)

Spec == Init /\ [][Next]_vars

\* analyze_reflection_by_id(id) when the client returns a belief whose entry
\* cannot be built: the constructor raises inside the loop
AnalyzeRaising(id, reply) == Analyze(id, reply)

NextRaise ==
    \/ Next
    \/ \E id \in ArgIds, reply \in RaisingReplies : AnalyzeRaising(id, reply)

SpecRaise == Init /\ [][NextRaise]_vars

\* every id in a children_ids list is a key of the dict, so get_children_by_id
\* inside delete_reflection_by_id never fails
ChildrenPresent ==
    \A p \in DOMAIN reflection_entries :
        Range(reflection_entries[p].children_ids) \subseteq DOMAIN reflection_entries

(***************************************************************************)
(* Tree consistency                                                        *)
(***************************************************************************)
Present == DOMAIN reflection_entries

Children(id) == Range(reflection_entries[id].children_ids)

NoDanglingAfterDelete ==
    (last.op = "delete" /\ last.ret) =>
        \A c \in Present :
            /\ reflection_entries[c].parent_id # NoId
                   => reflection_entries[c].parent_id \in Present
            /\ Children(c) \subseteq Present

\* C3: deleting an entry B whose parent A is present returns true, removes B
\* from the dict and from A.children_ids, and leaves every child C of B in
\* the dict with C.parent_id = A.id and C.id in A.children_ids.
ReparentOnDelete ==
    [][\A B \in Present :
          (last'.op = "delete" /\ last'.id = B
             /\ get_parent_by_id(reflection_entries, B) # NoId)
          => LET A == reflection_entries[B].parent_id
             IN /\ last'.ret
                /\ B \notin DOMAIN reflection_entries'
                /\ A \in DOMAIN reflection_entries'
                /\ B \notin Range(reflection_entries'[A].children_ids)
                /\ \A C \in Children(B) :
                      /\ C \in DOMAIN reflection_entries'
                      /\ reflection_entries'[C].parent_id = A
                      /\ C \in Range(reflection_entries'[A].children_ids)]_vars

\* an entry with a child was deleted and the child now hangs under the
\* entry's former parent
MovedUpState ==
    /\ last.op = "delete" /\ last.ret /\ last.children # <<>>
    /\ last.id \notin Present
    /\ \A C \in Range(last.children) :
          /\ C \in Present
          /\ reflection_entries[C].parent_id \in Present
          /\ C \in Children(reflection_entries[C].parent_id)

\* C4: deleting the root leaves the dict empty and original_entry_id None.
RootDeletionClearsAll ==
    [][(last'.op = "delete" /\ last'.id = original_entry_id
          /\ original_entry_id \in Present)
       => (reflection_entries' = << >> /\ original_entry_id' = NoId)]_vars

Roots == { c \in Present : reflection_entries[c].parent_id = NoId }

\* C5 as stated: at most one entry of the dict has parent_id None.
SingleRoot == Cardinality(Roots) <= 1

\* the step upserts a new entry into a dict that already holds entries
SeedsNonEmpty ==
    last'.op = "upsert" /\ last'.id \notin Present /\ Present # {}

\* C5 amended: every call other than an upsert of a new parentless entry
\* into a non-empty dict keeps the number of parentless entries at most one.
SingleRootPreserved ==
    [][(SingleRoot /\ ~SeedsNonEmpty)
       => Cardinality({ c \in DOMAIN reflection_entries' :
                          reflection_entries'[c].parent_id = NoId }) <= 1]_vars

\* an analysis has added children below the only parentless entry
OneRootWithChildren ==
    /\ last.op = "analyze" /\ last.ret /\ last.called
    /\ Cardinality(Roots) = 1
    /\ Cardinality(Present) >= 2

(***************************************************************************)
(* Analysis                                                                *)
(***************************************************************************)
\* C6: after an analyze of an entry returned true, an immediately following
\* analyze of the same entry returns true, does not call the client and
\* leaves the dict as it was.
AnalyzeTwiceIsNoOp ==
    [][\A id \in ArgIds :
          (last.op = "analyze" /\ last.id = id /\ last.ret
             /\ last'.op = "analyze" /\ last'.id = id)
          => (last'.ret /\ ~last'.called /\ reflection_entries' = reflection_entries)]_vars

\* C7: analyze of an absent id or of an entry whose answer is None or ""
\* returns false, does not call the client and changes nothing.
AnalyzePrecondition ==
    [][\A id \in ArgIds :
          (last'.op = "analyze" /\ last'.id = id
             /\ (id \notin Present \/ reflection_entries[id].answer \in {None, ""}))
          => /\ ~last'.ret
             /\ ~last'.called
             /\ reflection_entries' = reflection_entries
             /\ original_entry_id' = original_entry_id]_vars

\* analyze was refused for an entry whose answer is the empty string
RefusedEmptyAnswer ==
    /\ last.op = "analyze" /\ ~last.ret /\ ~last.called
    /\ last.id \in Present
    /\ reflection_entries[last.id].answer = ""

\* the ids of the n entries an analysis creates, in creation order
FreshIds(n) == [ k \in 1..n |-> nextId + k - 1 ]

\* the step created one entry per belief of the reply, each once, in order
CreatesEachOnce(id, beliefs) ==
    LET fresh == FreshIds(Len(beliefs))
    IN /\ Range(fresh) \cap Present = {}
       /\ DOMAIN reflection_entries' = Present \cup Range(fresh)
       /\ reflection_entries'[id].children_ids =
              reflection_entries[id].children_ids \o fresh
       /\ \A k \in DOMAIN beliefs :
             /\ reflection_entries'[fresh[k]].question = beliefs[k].challenge_question
             /\ reflection_entries'[fresh[k]].context = beliefs[k].statement

\* C8: when the client returns nothing, analyze returns false and the dict
\* and the root are as before; an analyze of the same entry that follows and
\* gets a reply returns true and creates each belief child exactly once.
FailedAnalysisCanBeRetried ==
    [][\A id \in Present :
          (last'.op = "analyze" /\ last'.id = id /\ last'.called)
          => /\ ~last'.reply.ok
                  => /\ ~last'.ret
                     /\ reflection_entries' = reflection_entries
                     /\ original_entry_id' = original_entry_id
             /\ (last'.retry /\ last'.reply.ok)
                  => /\ last'.ret
                     /\ CreatesEachOnce(id, last'.reply.beliefs)]_vars

\* a failed analysis was retried and the retry created the belief children
RetrySucceeded ==
    /\ last.op = "analyze" /\ last.retry /\ last.ret /\ last.called
    /\ last.reply.beliefs # <<>>
    /\ Len(reflection_entries[last.id].children_ids) = Len(last.reply.beliefs)

AnalyzeCreatesChildren ==
    [][\A id \in Present :
          (last'.op = "analyze" /\ last'.id = id /\ last'.called /\ last'.ret)
          => LET reply == last'.reply
                 fresh == FreshIds(Len(reply.beliefs))
                 old == reflection_entries[id]
             IN /\ Range(fresh) \cap Present = {}
                /\ DOMAIN reflection_entries' = Present \cup Range(fresh)
                /\ reflection_entries'[id] =
                       [old EXCEPT !.themes = reply.themes,
                                   !.sentiment = reply.sentiment,
                                   !.children_ids = old.children_ids \o fresh]
                /\ \A k \in DOMAIN reply.beliefs :
                      LET new == reflection_entries'[fresh[k]]
                      IN /\ new.id = fresh[k]
                         /\ new.question = reply.beliefs[k].challenge_question
                         /\ new.context = reply.beliefs[k].statement
                         /\ new.context_type = reply.beliefs[k].belief_type
                         /\ new.parent_id = id
                         /\ new.language = old.language
                         /\ new.answer = None
                         /\ new.themes = <<>>
                         /\ new.children_ids = <<>>
                /\ \A o \in Present \ {id} :
                      reflection_entries'[o] = reflection_entries[o]]_vars

\* an analysis returned two different beliefs and the entry's last two
\* children carry their questions in the order of the reply
TwoChildrenInReplyOrder ==
    /\ last.op = "analyze" /\ last.called /\ last.ret
    /\ Len(last.reply.beliefs) = 2
    /\ last.reply.beliefs[1] # last.reply.beliefs[2]
    /\ LET kids == reflection_entries[last.id].children_ids
       IN /\ Len(kids) >= 2
          /\ \A k \in 1..2 :
                reflection_entries[kids[Len(kids) - 2 + k]].question =
                    last.reply.beliefs[k].challenge_question

(***************************************************************************)
(* Calls that change the tree                                              *)
(***************************************************************************)
\* the calls of Next that find their entry and change it
Change ==
    \/ \E q \in QuestionEntries : Seed(q)
    \/ \E id \in Present, a \in Answers : SetAnswer(id, a)
    \/ \E id \in Present : Delete(id)
    \/ \E id \in Present, reply \in Analyses : Analyze(id, reply)

\* the keys of the dict in iteration order: a dict iterates in insertion
\* order, and the uuids are handed out in increasing order and never reused
RECURSIVE KeysFrom(_, _)
KeysFrom(entries, k) ==
    IF k > MaxNodes THEN <<>>
    ELSE (IF k \in DOMAIN entries THEN <<k>> ELSE <<>>) \o KeysFrom(entries, k + 1)

Keys(entries) == KeysFrom(entries, 1)

(***************************************************************************)
(* Passes over the whole dict                                              *)
(***************************************************************************)
\* the loop of delete_all_reflections_without_answer over
\* self.reflection_entries.values(): each step of the dict iterator raises
\* RuntimeError when the dict no longer has the size it had when the loop began
RECURSIVE DeleteAllFrom(_, _, _)
DeleteAllFrom(entries, keys, size) ==
    IF Cardinality(DOMAIN entries) # size THEN [entries |-> entries, raised |-> TRUE]
    ELSE IF keys = <<>> THEN [entries |-> entries, raised |-> FALSE]
    ELSE LET id == Head(keys)
         IN DeleteAllFrom(IF ~Truthy(entries[id].answer)
                          THEN delete_reflection_by_id(entries, id)
                          ELSE entries,
                          Tail(keys), size)

delete_all_reflections_without_answer(entries) ==
    DeleteAllFrom(entries, Keys(entries), Cardinality(DOMAIN entries))

\* delete_all_reflections_without_answer()
DeleteAllWithoutAnswer ==
    LET done == delete_all_reflections_without_answer(reflection_entries)
    IN /\ reflection_entries' = done.entries
       /\ UNCHANGED <<original_entry_id, nextId>>
       /\ last' = [Quiet EXCEPT !.op = "delete_all", !.raised = done.raised]
       /\ UNCHANGED outside

\* what the client answers to the calls of one pass
PassReplies ==
    { NoAnalysis,
      [ok |-> TRUE, themes |-> <<"work">>, sentiment |-> "Positive", beliefs |-> <<>>],
      [ok |-> TRUE, themes |-> <<"work">>, sentiment |-> "Positive",
       beliefs |-> <<[belief_type |-> "Assumption", statement |-> "s1",
                      challenge_question |-> "cq1"]>>] }

\* the dict after analyze_reflection_by_id(id), the client answering `reply`
analyze_reflection_by_id(entries, id, reply) ==
    IF /\ id \in DOMAIN entries
       /\ Truthy(entries[id].answer)
       /\ ~AlreadyAnalyzed(entries[id])
    THEN ApplyAnalysis(entries, id, reply)
    ELSE entries

\* the loop of analyze_all_reflections over self.reflection_entries.values();
\* `nodes` lists the entries analyze_reflection_by_id was invoked on
RECURSIVE AnalyzeAllFrom(_, _, _, _, _)
AnalyzeAllFrom(entries, keys, size, replies, nodes) ==
    IF Cardinality(DOMAIN entries) # size
    THEN [entries |-> entries, raised |-> TRUE, nodes |-> nodes]
    ELSE IF keys = <<>>
    THEN [entries |-> entries, raised |-> FALSE, nodes |-> nodes]
    ELSE LET id == Head(keys)
         IN AnalyzeAllFrom(analyze_reflection_by_id(entries, id, replies[id]),
                           Tail(keys), size, replies, Append(nodes, id))

analyze_all_reflections(entries, replies) ==
    AnalyzeAllFrom(entries, Keys(entries), Cardinality(DOMAIN entries), replies, <<>>)

\* analyze_all_reflections(), the client answering replies[id] for entry id
AnalyzeAll(replies) ==
    LET done == analyze_all_reflections(reflection_entries, replies)
        made == Cardinality(DOMAIN done.entries) - Cardinality(DOMAIN reflection_entries)
    IN /\ nextId + made - 1 <= MaxNodes
       /\ reflection_entries' = done.entries
       /\ nextId' = nextId + made
       /\ UNCHANGED original_entry_id
       /\ last' = [Quiet EXCEPT !.op = "analyze_all", !.raised = done.raised,
                                !.nodes = done.nodes]
       /\ UNCHANGED outside

NextBulk ==
    \/ Change
    \/ DeleteAllWithoutAnswer
    \/ \E replies \in [Ids -> PassReplies] : AnalyzeAll(replies)

SpecBulk == Init /\ [][NextBulk]_vars

\* C11: delete_all_reflections_without_answer() completes normally on any
\* tree and, when it returns, no entry of the dict has an empty answer.
DeleteAllLeavesOnlyAnswered ==
    last.op = "delete_all" =>
        /\ ~last.raised
        /\ \A c \in Present : Truthy(reflection_entries[c].answer)

\* C12: analyze_all_reflections() invokes analyze_reflection_by_id on every
\* entry that is in the dict when it is called and completes normally, also
\* when the analyses insert new children during the pass.
AnalyzeAllVisitsEveryEntry ==
    [][ last'.op = "analyze_all" =>
          /\ ~last'.raised
          /\ Range(last'.nodes) = DOMAIN reflection_entries ]_vars

(***************************************************************************)
(* Lookups by id                                                           *)
(***************************************************************************)
\* self.reflection_entries.get(id): the entry's id, NoId for None
get_reflection_by_id(entries, id) == IF id \in DOMAIN entries THEN id ELSE NoId

\* get_children_by_id: self.reflection_entries[id] raises KeyError when the
\* id is not a key of the dict
get_children_by_id(entries, id) ==
    IF id \in DOMAIN entries
    THEN [raised |-> FALSE, children |-> entries[id].children_ids]
    ELSE [raised |-> TRUE, children |-> <<>>]

\* a report is the list of the pieces the f-strings put together
EmptyText == <<>>

\* prefix="# "
TopPrefix == <<"#", " ">>

\* the part of the report an answered entry contributes itself
OwnText(entry, prefix) ==
    prefix \o <<entry.question, "\n\n">>
    \o (IF Truthy(entry.context)
        THEN <<"**", entry.context_type, "**: ", entry.context, "\n\n">>
        ELSE <<>>)
    \o <<entry.answer, "\n\n">>

ReportableIfPresent(entries, id) == id \in DOMAIN entries

\* the negation of `not entry or not entry.answer`
Reportable(entries, id) == id \in DOMAIN entries /\ Truthy(entries[id].answer)

DeeperKeepsPrefix(prefix) == prefix

\* f"#{prefix} "
Deeper(prefix) == <<"#">> \o prefix \o <<" ">>

RECURSIVE get_recursive_report(_, _, _)
RECURSIVE ChildrenText(_, _, _)

\* for child in get_children_by_id(entry_id): text += _get_recursive_report(...)
ChildrenText(entries, children, prefix) ==
    IF children = <<>> THEN EmptyText
    ELSE get_recursive_report(entries, Head(children), prefix)
         \o ChildrenText(entries, Tail(children), prefix)

\* _get_recursive_report(entry_id, prefix)
get_recursive_report(entries, id, prefix) ==
    IF ~Reportable(entries, id) THEN EmptyText
    ELSE OwnText(entries[id], prefix)
         \o ChildrenText(entries, entries[id].children_ids, Deeper(prefix))

\* get_report()
get_report(entries, root) ==
    IF root = NoId THEN EmptyText ELSE get_recursive_report(entries, root, TopPrefix)

\* get_reflection_by_id(id)
GetReflection(id) ==
    /\ last' = [Quiet EXCEPT !.op = "get", !.id = id,
                             !.node = get_reflection_by_id(reflection_entries, id)]
    /\ UNCHANGED <<manager, outside>>

\* get_parent_by_id(id)
GetParent(id) ==
    /\ last' = [Quiet EXCEPT !.op = "get_parent", !.id = id,
                             !.node = get_parent_by_id(reflection_entries, id)]
    /\ UNCHANGED <<manager, outside>>

\* get_children_by_id(id)
GetChildren(id) ==
    LET got == get_children_by_id(reflection_entries, id)
    IN /\ last' = [Quiet EXCEPT !.op = "get_children", !.id = id,
                                !.raised = got.raised, !.nodes = got.children]
       /\ UNCHANGED <<manager, outside>>

\* _get_recursive_report(id)
Report(id) ==
    /\ last' = [Quiet EXCEPT !.op = "report", !.id = id,
                             !.text = get_recursive_report(reflection_entries, id, TopPrefix)]
    /\ UNCHANGED <<manager, outside>>

\* the operations that take an id, called with any id, and the calls that
\* change the tree
NextLookup ==
    \/ Change
    \/ \E id \in ArgIds : GetReflection(id)
    \/ \E id \in ArgIds : GetParent(id)
    \/ \E id \in ArgIds : GetChildren(id)
    \/ \E id \in ArgIds : Delete(id)
    \/ \E id \in ArgIds : Analyze(id, NoAnalysis)
    \/ \E id \in ArgIds : Report(id)

SpecLookup == Init /\ [][NextLookup]_vars

\* the operations of ReflectionManager that take an entry id
IdOps == {"get", "get_parent", "get_children", "delete", "analyze", "report"}

\* C13: every operation that takes an id, called with an id that is not in
\* the dict, returns the "nothing" value of its type (None, empty list,
\* false, empty string) and never raises.
AbsentIdReturnsNothing ==
    [][ (last'.op \in IdOps /\ last'.id \notin DOMAIN reflection_entries) =>
          /\ ~last'.raised
          /\ last'.node = NoId
          /\ last'.nodes = <<>>
          /\ ~last'.ret
          /\ last'.text = EmptyText ]_vars

(***************************************************************************)
(* The report                                                              *)
(***************************************************************************)
\* get_report()
GetReport ==
    /\ last' = [Quiet EXCEPT !.op = "get_report",
                             !.text = get_report(reflection_entries, original_entry_id)]
    /\ UNCHANGED <<manager, outside>>

NextReport ==
    \/ Change
    \/ \E id \in ArgIds : Report(id)
    \/ GetReport

SpecReport == Init /\ [][NextReport]_vars

Answered(id) == id \in Present /\ Truthy(reflection_entries[id].answer)

\* C14: _get_recursive_report(id) of an entry whose answer is empty is the
\* empty string, whatever answered descendants it has; get_report() is the
\* empty string when there is no root or the root is unanswered.
UnansweredReportsNothing ==
    /\ (last.op = "report" /\ last.id \in Present /\ ~Answered(last.id))
           => last.text = EmptyText
    /\ (last.op = "get_report" /\ ~Answered(original_entry_id))
           => last.text = EmptyText

\* the report of an unanswered entry with an answered child was asked for
UnansweredParentReported ==
    /\ last.op = "report"
    /\ last.id \in Present
    /\ ~Answered(last.id)
    /\ \E c \in Children(last.id) : Answered(c)
    /\ last.text = EmptyText

\* the position of x in a list that holds it
Position(seq, x) == CHOOSE i \in DOMAIN seq : seq[i] = x /\ \A j \in 1..(i - 1) : seq[j] # x

\* x is listed among the children of the present entry its parent_id names
Linked(x) ==
    /\ x \in Present
    /\ reflection_entries[x].parent_id \in Present
    /\ x \in Children(reflection_entries[x].parent_id)

\* the entries the root reaches in k steps down children_ids through
\* answered entries only, the root included
RECURSIVE ShownWithin(_)
ShownWithin(k) ==
    IF k = 0 THEN { r \in {original_entry_id} : Answered(r) }
    ELSE ShownWithin(k - 1) \cup
         { x \in Present : /\ Answered(x)
                           /\ Linked(x)
                           /\ reflection_entries[x].parent_id \in ShownWithin(k - 1) }

Shown == ShownWithin(MaxNodes)

\* the child positions that lead from the root to a shown entry
RECURSIVE PathTo(_)
PathTo(x) ==
    IF x = original_entry_id THEN <<>>
    ELSE LET p == reflection_entries[x].parent_id
         IN Append(PathTo(p), Position(reflection_entries[p].children_ids, x))

\* depth-first pre-order: an entry comes before its descendants, and a
\* subtree before the subtrees of the later siblings
Before(p, q) ==
    \/ Len(p) < Len(q) /\ SubSeq(q, 1, Len(p)) = p
    \/ \E i \in 1..Len(p) :
          /\ i <= Len(q)
          /\ SubSeq(p, 1, i - 1) = SubSeq(q, 1, i - 1)
          /\ p[i] < q[i]

RECURSIVE InPreOrder(_)
InPreOrder(S) ==
    IF S = {} THEN <<>>
    ELSE LET first == CHOOSE x \in S : \A y \in S \ {x} : Before(PathTo(x), PathTo(y))
         IN <<first>> \o InPreOrder(S \ {first})

\* d+1 '#' markers, then the blanks
Heading(d) == [ i \in 1..(2 * (d + 1)) |-> IF i <= d + 1 THEN "#" ELSE " " ]

RECURSIVE Blocks(_)
Blocks(order) ==
    IF order = <<>> THEN EmptyText
    ELSE OwnText(reflection_entries[Head(order)], Heading(Len(PathTo(Head(order)))))
         \o Blocks(Tail(order))

UnanalyzedEntries(entries) == { i \in DOMAIN entries : entries[i].themes = <<>> }

\* [entry for entry in self.reflection_entries.values() if not entry.answer]
unanswered_entries(entries) == { i \in DOMAIN entries : ~Truthy(entries[i].answer) }

\* get_unanswered_reflection_entry(): random.choice picks any of the list
GetUnanswered ==
    /\ \E node \in (IF unanswered_entries(reflection_entries) = {}
                    THEN {NoId}
                    ELSE unanswered_entries(reflection_entries)) :
           last' = [Quiet EXCEPT !.op = "get_unanswered", !.node = node]
    /\ UNCHANGED <<manager, outside>>

RECURSIVE CountAnswered(_, _)
CountAnswered(entries, keys) ==
    IF keys = <<>> THEN 0
    ELSE (IF Truthy(entries[Head(keys)].answer) THEN 1 ELSE 0)
         + CountAnswered(entries, Tail(keys))

\* len([entry for entry in self.reflection_entries.values() if entry.themes])
RECURSIVE CountAnalyzed(_, _)
CountAnalyzed(entries, keys) ==
    IF keys = <<>> THEN 0
    ELSE (IF entries[Head(keys)].themes # <<>> THEN 1 ELSE 0)
         + CountAnalyzed(entries, Tail(keys))

\* get_statistics()
get_statistics(entries) == <<CountAnalyzed(entries, Keys(entries)), Len(Keys(entries))>>

GetStatistics ==
    /\ last' = [Quiet EXCEPT !.op = "statistics",
                             !.stats = get_statistics(reflection_entries)]
    /\ UNCHANGED <<manager, outside>>

NextStats ==
    \/ Change
    \/ GetUnanswered
    \/ GetStatistics

SpecStats == Init /\ [][NextStats]_vars

\* C16: get_unanswered_reflection_entry() returns an entry of the dict whose
\* answer is empty whenever there is one, returns nothing only when every
\* entry has a non-empty answer, never returns an answered entry and never
\* changes the dict.
UnansweredEntryReturned ==
    [][ last'.op = "get_unanswered" =>
          /\ reflection_entries' = reflection_entries
          /\ original_entry_id' = original_entry_id
          /\ IF \E c \in Present : ~Truthy(reflection_entries[c].answer)
             THEN /\ last'.node \in Present
                  /\ ~Truthy(reflection_entries[last'.node].answer)
             ELSE last'.node = NoId ]_vars

\* an unanswered entry was returned from a dict that also holds an answered
\* entry without themes
UnansweredAmongAnswered ==
    /\ last.op = "get_unanswered"
    /\ last.node \in Present
    /\ ~Answered(last.node)
    /\ \E c \in Present : Answered(c) /\ reflection_entries[c].themes = <<>>

\* get_statistics() = (the number of entries with non-empty themes, the
\* number of entries)
StatisticsCount ==
    last.op = "statistics" =>
        last.stats = << Cardinality({ c \in Present : reflection_entries[c].themes # <<>> }),
                        Cardinality(Present) >>

\* one root was seeded and answered, and one successful analysis of it
\* returned one belief
RootWithOneNewChild ==
    /\ nextId = 3
    /\ Present = {1, 2}
    /\ Answered(1)
    /\ reflection_entries[1].children_ids = <<2>>
    /\ reflection_entries[2].parent_id = 1
    /\ reflection_entries[2].answer = None
    /\ reflection_entries[2].themes = <<>>

\* C19 as stated: get_statistics() counts the entries with non-empty themes
\* and the entries; after seeding one root, answering it and a successful
\* analysis returning one belief it returns (1, 2).
StatisticsAfterAnyAnalysis ==
    /\ StatisticsCount
    /\ (last.op = "statistics" /\ RootWithOneNewChild) => last.stats = <<1, 2>>

\* C19, amended: get_statistics() counts the entries with non-empty themes
\* and the entries; after seeding one root, answering it and a successful
\* analysis returning non-empty themes and one belief it returns (1, 2).
StatisticsAfterAnalysisWithThemes ==
    /\ StatisticsCount
    /\ (last.op = "statistics" /\ RootWithOneNewChild
          /\ reflection_entries[1].themes # <<>>) => last.stats = <<1, 2>>

\* the statistics of a root analyzed with themes and its one new child
StatisticsOneOfTwo ==
    /\ last.op = "statistics"
    /\ RootWithOneNewChild
    /\ reflection_entries[1].themes # <<>>
    /\ last.stats = <<1, 2>>

(***************************************************************************)
(* JournalManager                                                          *)
(***************************************************************************)
\* get_language(): the language of the first entry that has one, else EN
RECURSIVE FirstLanguage(_, _)
FirstLanguage(entries, keys) ==
    IF keys = <<>> THEN "en"
    ELSE IF Truthy(entries[Head(keys)].language) THEN entries[Head(keys)].language
    ELSE FirstLanguage(entries, Tail(keys))

get_language(entries) == FirstLanguage(entries, Keys(entries))

\* '\n'.join([belief.belief_type + ': ' + belief.statement for belief in beliefs])
RECURSIVE JoinBeliefs(_)
JoinBeliefs(beliefs) ==
    IF beliefs = <<>> THEN <<>>
    ELSE <<Head(beliefs).belief_type, ": ", Head(beliefs).statement>>
         \o (IF Tail(beliefs) = <<>> THEN <<>> ELSE <<"\n">> \o JoinBeliefs(Tail(beliefs)))

\* the uuid of the summary entry, which is not an entry of the tree
SummaryId == MaxNodes + 1

\* the ReflectionEntry built from the two analyses
SummaryEntry(language, analysis, reflection_analysis) ==
    [ReflectionEntry(SummaryId, analysis.main_question, language,
                     JoinBeliefs(reflection_analysis.beliefs), "Original", NoId)
        EXCEPT !.answer = analysis.answer_summary,
               !.themes = reflection_analysis.themes,
               !.sentiment = reflection_analysis.sentiment]

GenerateInsightsFirst(entries, root, summary, ins, analysis, reflection_analysis) ==
    IF get_report(entries, root) = EmptyText \/ ~analysis.ok
    THEN [ret |-> FALSE, summary_entry |-> summary, insights |-> ins]
    ELSE IF ~reflection_analysis.ok
    THEN [ret |-> FALSE, summary_entry |-> summary, insights |-> analysis.insights]
    ELSE [ret |-> TRUE,
          summary_entry |-> SummaryEntry(get_language(entries), analysis, reflection_analysis),
          insights |-> analysis.insights]

\* _generate_journal_entry(): its return value and the two attributes after
\* it, analyze_report answering `analysis` and analyze_reflection answering
\* `reflection_analysis` if they are called
generate_journal_entry(entries, root, summary, ins, analysis, reflection_analysis) ==
    IF get_report(entries, root) = EmptyText
    THEN [ret |-> FALSE, summary_entry |-> summary, insights |-> ins]
    ELSE IF ~analysis.ok
    THEN [ret |-> FALSE, summary_entry |-> summary, insights |-> ins]
    ELSE IF ~reflection_analysis.ok
    THEN [ret |-> FALSE, summary_entry |-> summary, insights |-> ins]
    ELSE [ret |-> TRUE,
          summary_entry |-> SummaryEntry(get_language(entries), analysis, reflection_analysis),
          insights |-> analysis.insights]

\* _generate_journal_entry()
Generate(analysis, reflection_analysis) ==
    LET done == generate_journal_entry(reflection_entries, original_entry_id,
                                       summary_entry, insights,
                                       analysis, reflection_analysis)
    IN /\ summary_entry' = done.summary_entry
       /\ insights' = done.insights
       /\ last' = [Quiet EXCEPT !.op = "generate", !.ret = done.ret,
                                !.report_reply = analysis, !.reply = reflection_analysis]
       /\ UNCHANGED <<manager, current_entry_id, rows, services>>

\* the tree grows from answers "a" and from replies with at most one belief
Grow ==
    \/ \E q \in QuestionEntries : Seed(q)
    \/ \E id \in Present : SetAnswer(id, "a")
    \/ \E id \in Present : Delete(id)
    \/ \E id \in Present, reply \in PassReplies \ {NoAnalysis} : Analyze(id, reply)

NextJournal ==
    \/ Grow
    \/ \E analysis \in ReportReplies, reflection_analysis \in PassReplies :
          Generate(analysis, reflection_analysis)

SpecJournal == Init /\ [][NextJournal]_vars

\* C17: _generate_journal_entry() returns true only if the report is
\* non-empty, the report analysis returned data and the analysis of the
\* summary returned data; if one of the three fails it returns false and
\* summary_entry, insights and the tree are as before the call.
GenerateAllOrNothing ==
    [][ last'.op = "generate" =>
          /\ last'.ret <=> /\ get_report(reflection_entries, original_entry_id) # EmptyText
                           /\ last'.report_reply.ok
                           /\ last'.reply.ok
          /\ ~last'.ret => /\ summary_entry' = summary_entry
                           /\ insights' = insights
                           /\ reflection_entries' = reflection_entries
                           /\ original_entry_id' = original_entry_id ]_vars

\* after a journal entry was generated, a second generation failed at the
\* analysis of the summary and left the first summary and insights in place
SecondGenerationFailed ==
    /\ last.op = "generate"
    /\ ~last.ret
    /\ last.report_reply.ok
    /\ ~last.reply.ok
    /\ last.report_reply.insights # insights
    /\ summary_entry # NoSummary
    /\ get_report(reflection_entries, original_entry_id) # EmptyText

(***************************************************************************)
(* Browser sessions of the Streamlit application                           *)
(***************************************************************************)
\* get_reflection_manager() in session s: st.cache_resource keeps one return
\* value per argument list for the whole server process, and the function
\* takes no argument, so every session gets the one ReflectionManager
SessionEntries(s) == reflection_entries

\* the entry main() renders in session s, NoId when it renders none:
\* st.session_state.current_entry_id, else the original entry
Rendered(s) ==
    IF current_entry_id[s] = NoId THEN NoId
    ELSE IF current_entry_id[s] \in DOMAIN SessionEntries(s) THEN current_entry_id[s]
    ELSE IF original_entry_id \in DOMAIN SessionEntries(s) THEN original_entry_id
    ELSE NoId

\* the entries whose widgets session s shows: render_entry of the current
\* entry and of its children
Visible(s) ==
    IF Rendered(s) = NoId THEN {}
    ELSE {Rendered(s)} \cup Range(SessionEntries(s)[Rendered(s)].children_ids)

\* main(): one run of the page in session s
Main(s, q, analysis, reflection_analysis) ==
    LET stats == get_statistics(SessionEntries(s))
        complete == stats[1] = stats[2] /\ stats[1] > 0
        saved == IF complete
                 THEN generate_journal_entry(SessionEntries(s), original_entry_id,
                                             summary_entry, insights,
                                             analysis, reflection_analysis)
                 ELSE [ret |-> FALSE, summary_entry |-> summary_entry, insights |-> insights]
        seeds == ~saved.ret /\ stats[2] = 0
    IN /\ seeds => nextId <= MaxNodes
       /\ summary_entry' = saved.summary_entry
       /\ insights' = saved.insights
       /\ reflection_entries' =
              IF seeds THEN Put(reflection_entries, nextId, RootEntry(nextId, q))
              ELSE reflection_entries
       /\ original_entry_id' = IF seeds THEN UpsertRoot(nextId) ELSE original_entry_id
       /\ nextId' = IF seeds THEN nextId + 1 ELSE nextId
       /\ current_entry_id' =
              IF seeds THEN [current_entry_id EXCEPT ![s] = nextId] ELSE current_entry_id
       /\ last' = [Quiet EXCEPT !.op = "main", !.who = s, !.ret = saved.ret,
                                !.raised = (~saved.ret /\ ~seeds /\ current_entry_id[s] = NoId)]
       /\ UNCHANGED <<rows, services>>

\* analyze_reflection(entry_id): the on_change handler of an answer box
AnswerEntry(s, id, a, reply) ==
    LET answered == Put(SessionEntries(s), id, [SessionEntries(s)[id] EXCEPT !.answer = a])
        analyzed == analyze_reflection_by_id(answered, id, reply)
        made == Cardinality(DOMAIN analyzed) - Cardinality(DOMAIN answered)
    IN /\ id \in Visible(s)
       /\ SessionEntries(s)[id].themes = <<>>
       /\ nextId + made - 1 <= MaxNodes
       /\ IF a = ""
          THEN UNCHANGED <<manager, current_entry_id>>
          ELSE /\ reflection_entries' = analyzed
               /\ original_entry_id' = UpsertRoot(id)
               /\ nextId' = nextId + made
               /\ current_entry_id' = [current_entry_id EXCEPT ![s] = id]
       /\ last' = [Quiet EXCEPT !.op = "answer", !.who = s, !.id = id]
       /\ UNCHANGED <<journal, rows, services>>

\* ignore_entry(entry_id)
IgnoreEntry(s, id) ==
    /\ id \in Visible(s)
    /\ SessionEntries(s)[id].themes = <<>>
    /\ SessionEntries(s)[id].context_type # "Original"
    /\ reflection_entries' = delete_reflection_by_id(SessionEntries(s), id)
    /\ last' = [Quiet EXCEPT !.op = "ignore", !.who = s, !.id = id]
    /\ UNCHANGED <<original_entry_id, nextId, journal, current_entry_id, rows, services>>

\* save_for_later(entry_id): the question goes back to the question bank
SaveForLater(s, id) ==
    /\ id \in Visible(s)
    /\ SessionEntries(s)[id].themes = <<>>
    /\ SessionEntries(s)[id].context_type # "Original"
    /\ reflection_entries' = delete_reflection_by_id(SessionEntries(s), id)
    /\ last' = [Quiet EXCEPT !.op = "save_for_later", !.who = s, !.id = id]
    /\ UNCHANGED <<original_entry_id, nextId, journal, current_entry_id, rows, services>>

\* set_current_entry(entry_id): "Expand" on a shown entry, "Go back" to the
\* parent of the current one
SetCurrentEntry(s, id) ==
    /\ \/ id \in Visible(s)
       \/ /\ Rendered(s) # NoId
          /\ current_entry_id[s] = Rendered(s)
          /\ id = SessionEntries(s)[Rendered(s)].parent_id
          /\ id # NoId
    /\ current_entry_id' = [current_entry_id EXCEPT ![s] = id]
    /\ last' = [Quiet EXCEPT !.op = "set_current", !.who = s, !.id = id]
    /\ UNCHANGED <<manager, journal, rows, services>>

\* get_unanswered_reflection_entry(): the sidebar button
GoToUnanswered(s) ==
    /\ \E node \in (IF unanswered_entries(SessionEntries(s)) = {}
                    THEN {NoId}
                    ELSE unanswered_entries(SessionEntries(s))) :
          /\ current_entry_id' =
                 IF node = NoId THEN current_entry_id
                 ELSE [current_entry_id EXCEPT ![s] = node]
          /\ last' = [Quiet EXCEPT !.op = "go_to_unanswered", !.who = s, !.node = node]
    /\ UNCHANGED <<manager, journal, rows, services>>

NextSessions ==
    \/ \E s \in Sessions, q \in QuestionEntries,
          analysis \in ReportReplies, reflection_analysis \in PassReplies :
          Main(s, q, analysis, reflection_analysis)
    \/ \E s \in Sessions, id \in Ids, a \in Answers, reply \in PassReplies :
          AnswerEntry(s, id, a, reply)
    \/ \E s \in Sessions, id \in Ids : IgnoreEntry(s, id)
    \/ \E s \in Sessions, id \in Ids : SaveForLater(s, id)
    \/ \E s \in Sessions, id \in Ids : SetCurrentEntry(s, id)
    \/ \E s \in Sessions : GoToUnanswered(s)

SpecSessions == Init /\ [][NextSessions]_vars

\* C18: two sessions never share reflection entries: an entry created or
\* changed through one session is never present in, returned by or changed
\* through the ReflectionManager of another session; so no entry is the
\* current entry of two sessions.
SessionsShareNoEntry ==
    \A s1, s2 \in Sessions :
        (s1 # s2 /\ current_entry_id[s1] # NoId)
            => current_entry_id[s1] # current_entry_id[s2]

(***************************************************************************)
(* The backend's reflection table                                          *)
(***************************************************************************)
\* a Reflection row: its owner and its parent_id column.  The engine is
\* SQLite with its default settings, which does not enforce the foreign key
\* of parent_id, and the request body is stored as it was sent
Row(user, parent_id) == [user_id |-> user, parent_id |-> parent_id]

\* PUT /reflections/ by `user` with a body naming `id` and `parent_id`
PutReflection(user, id, parent_id) ==
    LET exists == id \in DOMAIN rows
        forbidden == exists /\ rows[id].user_id # user
    IN /\ rows' = IF forbidden THEN rows
                  ELSE IF exists THEN [rows EXCEPT ![id].parent_id = parent_id]
                  ELSE Put(rows, id, Row(user, parent_id))
       /\ last' = [Quiet EXCEPT !.op = "http_put", !.who = user, !.id = id,
                                !.ret = ~forbidden, !.raised = forbidden]
       /\ UNCHANGED <<manager, journal, current_entry_id, services>>

\* the rows after the session of delete_reflection commits: every row
\* selected by parent_id == reflection_id gets the parent_id of the deleted
\* row, then the row is deleted
delete_reflection(table, id) ==
    [ i \in (DOMAIN table) \ {id} |->
        IF table[i].parent_id = id
        THEN [table[i] EXCEPT !.parent_id = table[id].parent_id]
        ELSE table[i] ]

\* DELETE /reflections/{id} by `user`: 404 for an absent row, 403 for a row
\* of another user
DeleteReflection(user, id) ==
    LET allowed == id \in DOMAIN rows /\ rows[id].user_id = user
    IN /\ rows' = IF allowed THEN delete_reflection(rows, id) ELSE rows
       /\ last' = [Quiet EXCEPT !.op = "http_delete", !.who = user, !.id = id,
                                !.ret = allowed, !.raised = ~allowed]
       /\ UNCHANGED <<manager, journal, current_entry_id, services>>

NextStore ==
    \/ \E user \in Users, id \in Ids, parent_id \in Ids \cup {NoId} :
          PutReflection(user, id, parent_id)
    \/ \E user \in Users, id \in Ids : DeleteReflection(user, id)

SpecStore == Init /\ [][NextStore]_vars

\* C20: after a successful DELETE /reflections/{id} of reflection R, R is
\* absent, every reflection that had parent_id = R.id has R's former
\* parent_id, and no row has parent_id = R.id.
StoreDeleteReparents ==
    [][ (last'.op = "http_delete" /\ last'.ret) =>
          LET R == last'.id
          IN /\ R \notin DOMAIN rows'
             /\ \A c \in DOMAIN rows' :
                   rows[c].parent_id = R => rows'[c].parent_id = rows[R].parent_id
             /\ \A c \in DOMAIN rows' : rows'[c].parent_id # R ]_vars

(***************************************************************************)
(* POST /reflections/{reflection_id}/analyze and the AI worker             *)
(***************************************************************************)
\* number of reflection ids the requests of this part may name
MaxRows == 2

RowIds == 1..MaxRows

\* the AI worker answered with an error status, or could not be reached
WorkerFailed == NoAnalysis

\* the AnalysisResponse of the worker's /analyze: sentiment and themes; the
\* response carries no beliefs and no follow-up questions
WorkerReplies ==
    { WorkerFailed,
      [ok |-> TRUE, themes |-> <<>>, sentiment |-> "positive", beliefs |-> <<>>],
      [ok |-> TRUE, themes |-> <<"work">>, sentiment |-> "positive", beliefs |-> <<>>] }

\* the beliefs the worker's background task may extract
WorkerBeliefs ==
    { <<>>,
      <<[belief_type |-> "Assumption", statement |-> "s1", challenge_question |-> "cq1"]>> }

\* a Reflection row with the columns the analysis reads and writes
AnsweredRow(user, parent_id, answer) ==
    [user_id |-> user, parent_id |-> parent_id, question |-> "q1",
     answer |-> answer, sentiment |-> "neutral"]

\* PUT /reflections/ by `user` with a body naming `id` and carrying an answer
UpsertReflection(user, id, answer) ==
    LET exists == id \in DOMAIN rows
        forbidden == exists /\ rows[id].user_id # user
    IN /\ rows' = IF forbidden THEN rows
                  ELSE IF exists
                  THEN [rows EXCEPT ![id] = AnsweredRow(rows[id].user_id, NoId, answer)]
                  ELSE Put(rows, id, AnsweredRow(user, NoId, answer))
       /\ last' = [Quiet EXCEPT !.op = "http_put", !.who = user, !.id = id,
                                !.ret = ~forbidden, !.raised = forbidden]
       /\ UNCHANGED <<manager, journal, current_entry_id, links, goals, topic, pending>>

\* POST /reflections/{id}/analyze by `user`, the worker answering `reply`:
\* 404, 403, 404 "No content", 503, or sentiment and theme links stored.
\* The worker queues its belief analysis before it responds.
AnalyzeReflection(user, id, reply) ==
    LET found == id \in DOMAIN rows
        owned == found /\ rows[id].user_id = user
        called == owned /\ Truthy(rows[id].answer)
        done == called /\ reply.ok
    IN /\ ~called => reply = WorkerFailed
       /\ rows' = IF done THEN [rows EXCEPT ![id].sentiment = reply.sentiment] ELSE rows
       /\ links' = IF done THEN links \cup { <<id, t>> : t \in Range(reply.themes) } ELSE links
       /\ pending' = IF done THEN pending \cup {[kind |-> "beliefs", id |-> id]} ELSE pending
       /\ last' = [Quiet EXCEPT !.op = "http_analyze", !.who = user, !.id = id,
                                !.ret = done, !.raised = ~done, !.called = called,
                                !.reply = reply]
       /\ UNCHANGED <<manager, journal, current_entry_id, goals, topic>>

\* the follow-up question messages publish_follow_up_questions builds
FollowUps(parent_id, beliefs) ==
    { [message_type |-> "follow_up_question", parent_id |-> parent_id,
       question |-> beliefs[i].challenge_question, context |-> beliefs[i].statement] :
      i \in DOMAIN beliefs }

\* analyze_beliefs_and_publish: the worker's background task extracts the
\* beliefs and publishes one follow-up question per belief; a publish that
\* fails is logged and the message is dropped
AnalyzeBeliefsAndPublish(task, beliefs, delivered) ==
    /\ task \in pending
    /\ task.kind = "beliefs"
    /\ delivered \subseteq FollowUps(task.id, beliefs)
    /\ topic' = topic \cup delivered
    /\ pending' = pending \ {task}
    /\ last' = [Quiet EXCEPT !.op = "publish", !.id = task.id,
                             !.ret = (delivered # {})]
    /\ UNCHANGED <<manager, journal, current_entry_id, rows, links, goals>>

\* every message the worker may publish
AllFollowUps == UNION { FollowUps(id, beliefs) : id \in RowIds, beliefs \in WorkerBeliefs }

NextAnalyzeStore ==
    \/ \E user \in Users, id \in RowIds, answer \in {None, "a"} :
          UpsertReflection(user, id, answer)
    \/ \E user \in Users, id \in RowIds, reply \in WorkerReplies :
          AnalyzeReflection(user, id, reply)
    \/ \E task \in pending, beliefs \in WorkerBeliefs, delivered \in SUBSET AllFollowUps :
          AnalyzeBeliefsAndPublish(task, beliefs, delivered)

SpecAnalyzeStore == Init /\ [][NextAnalyzeStore]_vars

\* C21: after a successful POST /reflections/{id}/analyze the reflection's
\* sentiment and theme links are those of the analysis, and for each
\* follow-up question the analysis produced there is a child reflection with
\* parent_id = id.
AnalyzeStoresFollowUps ==
    /\ (last.op = "http_analyze" /\ last.ret) =>
          /\ rows[last.id].sentiment = last.reply.sentiment
          /\ \A t \in Range(last.reply.themes) : <<last.id, t>> \in links
    /\ \A m \in topic :
          m.parent_id \in DOMAIN rows =>
             \E c \in DOMAIN rows : /\ rows[c].parent_id = m.parent_id
                                    /\ rows[c].question = m.question

(***************************************************************************)
(* PUT /goals/                                                             *)
(***************************************************************************)
\* if goal_count >= 5: 400 "Maximum of 5 goals per user reached"
GoalLimit == 5

\* number of goal ids the model hands out
MaxGoals == 6

\* number of PUT /goals/ requests that may be between their count and their
\* commit at the same time
MaxRequests == 2

GoalIds == 1..MaxGoals

\* select(func.count(Goal.id)).where(Goal.user_id == current_user.id)
goal_count(table, user) == Cardinality({ g \in DOMAIN table : table[g] = user })

\* the id of a new goal: the default_factory draws a uuid no goal has
FreshGoalIds == { g \in GoalIds : g \notin DOMAIN goals /\ \A r \in pending : r.id # g }

\* PUT /goals/ by `user` for an existing goal: 403 for a goal of another
\* user, else the columns are overwritten and committed
UpdateGoal(user, id) ==
    /\ id \in DOMAIN goals
    /\ last' = [Quiet EXCEPT !.op = "goal_update", !.who = user, !.id = id,
                             !.ret = (goals[id] = user), !.raised = (goals[id] # user)]
    /\ UNCHANGED <<manager, journal, current_entry_id, rows, services>>

\* PUT /goals/ by `user` for a new goal, up to the limit check: the request's
\* session counts the user's goals; 400 at the limit
CountGoals(user, id) ==
    LET counted == goal_count(goals, user)
    IN /\ id \in FreshGoalIds
       /\ Cardinality(pending) < MaxRequests
       /\ pending' = IF counted >= GoalLimit THEN pending
                     ELSE pending \cup {[kind |-> "goal", user |-> user, id |-> id,
                                         goal_count |-> counted]}
       /\ last' = [Quiet EXCEPT !.op = "goal_count", !.who = user, !.id = id,
                                !.ret = (counted < GoalLimit),
                                !.raised = (counted >= GoalLimit)]
       /\ UNCHANGED <<manager, journal, current_entry_id, rows, links, goals, topic>>

\* the rest of the request: session.add(goal); session.commit()
InsertGoal(request) ==
    /\ request \in pending
    /\ request.kind = "goal"
    /\ goals' = Put(goals, request.id, request.user)
    /\ pending' = pending \ {request}
    /\ last' = [Quiet EXCEPT !.op = "goal_insert", !.who = request.user,
                             !.id = request.id, !.ret = TRUE]
    /\ UNCHANGED <<manager, journal, current_entry_id, rows, links, topic>>

NextGoals ==
    \/ \E user \in Users, id \in GoalIds : UpdateGoal(user, id)
    \/ \E user \in Users, id \in GoalIds : CountGoals(user, id)
    \/ \E request \in pending : InsertGoal(request)

SpecGoals == Init /\ [][NextGoals]_vars

\* C22: no sequence or interleaving of PUT /goals/ requests, each counting
\* and inserting in its own database session, leaves a user with more than
\* 5 goals.
GoalLimitHolds ==
    \A user \in Users : goal_count(goals, user) <= GoalLimit

(***************************************************************************)
(* The tree under non-empty answers                                        *)
(***************************************************************************)
NonEmptyAnswers == { a \in Answers : Truthy(a) }

\* seeding, storing non-empty answers, analysing (the client answering or
\* failing) and deleting
Fill ==
    \/ \E q \in QuestionEntries : Seed(q)
    \/ \E id \in Present, a \in NonEmptyAnswers : SetAnswer(id, a)
    \/ \E id \in Present : Delete(id)
    \/ \E id \in Present, reply \in ClientReplies : Analyze(id, reply)

SpecFill == Init /\ [][Fill]_vars

\* C23: in every state reached by seeding, storing non-empty answers,
\* analysing and deleting, an entry whose answer is empty has no themes and
\* an empty children_ids list.
UnansweredNeverAnalyzed ==
    \A id \in Present :
        ~Truthy(reflection_entries[id].answer) =>
            /\ reflection_entries[id].themes = <<>>
            /\ reflection_entries[id].children_ids = <<>>

\* an unanswered entry has just moved up to its grandparent, whose themes are set
UnansweredMovedUp ==
    /\ last.op = "delete"
    /\ \E c \in Present :
          /\ c \in Range(last.children)
          /\ ~Truthy(reflection_entries[c].answer)
          /\ reflection_entries[c].parent_id \in Present
          /\ reflection_entries[reflection_entries[c].parent_id].themes # <<>>

(***************************************************************************)
(* Analyses reopen the subject                                             *)
(***************************************************************************)
\* the last call was an analysis whose reply carried at least one belief
AnalyzedWithBeliefs(call) ==
    /\ call.op = "analyze"
    /\ call.called
    /\ call.reply.ok
    /\ call.reply.beliefs # <<>>

\* C24: every entry created by analyze_reflection_by_id starts unanswered:
\* right after an analysis whose reply has at least one belief there is an
\* unanswered entry and get_unanswered_reflection_entry() returns one, even
\* if every entry was answered before the call.
AnalysisReopensSubject ==
    [][ /\ AnalyzedWithBeliefs(last') =>
              /\ Present' \ Present # {}
              /\ \A new \in Present' \ Present :
                    ~Truthy(reflection_entries'[new].answer)
              /\ unanswered_entries(reflection_entries') # {}
        /\ (AnalyzedWithBeliefs(last) /\ last'.op = "get_unanswered") =>
              /\ last'.node \in Present
              /\ ~Truthy(reflection_entries[last'.node].answer)
      ]_vars

\* the subject is open for the third time: an entry that itself came from an
\* analysis was answered and analysed, and only its new children are unanswered
ReopenedTwice ==
    /\ AnalyzedWithBeliefs(last)
    /\ last.id \in Present
    /\ reflection_entries[last.id].parent_id # NoId
    /\ unanswered_entries(reflection_entries) = Children(last.id)
    /\ Children(last.id) # {}

(***************************************************************************)
(* Answered entries below an unanswered one                                *)
(***************************************************************************)
\* `part` occurs in `text`
Contains(text, part) ==
    \E i \in 0..(Len(text) - Len(part)) : SubSeq(text, i + 1, i + Len(part)) = part

\* C25: the report of an unanswered entry leaves out the entry's own heading
\* and body but still holds its answered children, each under a deeper
\* heading.
AnsweredDescendantsRendered ==
    (last.op = "report" /\ last.id \in Present /\ ~Answered(last.id)) =>
        /\ ~Contains(last.text, OwnText(reflection_entries[last.id], TopPrefix))
        /\ \A c \in Children(last.id) :
               Answered(c) =>
                   Contains(last.text, OwnText(reflection_entries[c], Deeper(TopPrefix)))

(***************************************************************************)
(* A new root after the old one was deleted                                *)
(***************************************************************************)
\* C26: when the root has been deleted and the dict is empty, the next
\* upsert_reflection of a parentless entry makes that entry the root, and
\* get_report() renders it once it is answered.
NewRootAfterDeletion ==
    [][ /\ (/\ Present = {}
            /\ last'.op = "upsert"
            /\ reflection_entries'[last'.id].parent_id = NoId)
               => original_entry_id' = last'.id
        /\ (/\ last'.op = "get_report"
            /\ \E x \in Present : Present = {x} /\ Answered(x)
                                  /\ reflection_entries[x].parent_id = NoId)
               => last'.text # EmptyText
      ]_vars

(***************************************************************************)
(* Overlapping analyses on the shared ReflectionManager                    *)
(***************************************************************************)
\* number of analyze_reflection_by_id calls that may wait for the client at
\* the same time
MaxCalls == 2

Calls == 1..MaxCalls

\* analyze_reflection_by_id(id) up to the call of the client: the entry is
\* found, answered and not yet analyzed, and the call waits for the reply
BeginAnalyze(id, call) ==
    /\ id \in Present
    /\ Truthy(reflection_entries[id].answer)
    /\ ~AlreadyAnalyzed(reflection_entries[id])
    /\ \A r \in pending : r.kind = "analyze" => r.call # call
    /\ pending' = pending \cup {[kind |-> "analyze", id |-> id, call |-> call]}
    /\ last' = [Quiet EXCEPT !.op = "analyze_begin", !.id = id, !.called = TRUE]
    /\ UNCHANGED <<manager, journal, current_entry_id, rows, links, goals, topic>>

\* the rest of the call once the client has answered `reply`: nothing on
\* None, else themes and sentiment are assigned and the children appended
EndAnalyze(request, reply) ==
    /\ request \in pending
    /\ request.kind = "analyze"
    /\ request.id \in Present
    /\ nextId + Len(Built(reply.beliefs)) - 1 <= MaxNodes
    /\ reflection_entries' = ApplyAnalysis(reflection_entries, request.id, reply)
    /\ nextId' = IF reply.ok THEN nextId + Len(Built(reply.beliefs)) ELSE nextId
    /\ pending' = pending \ {request}
    /\ last' = [Quiet EXCEPT !.op = "analyze_end", !.id = request.id, !.ret = reply.ok,
                             !.called = TRUE, !.reply = reply]
    /\ UNCHANGED <<original_entry_id, journal, current_entry_id, rows, links, goals, topic>>

\* sessions that seed, answer and analyse on the one cached manager, no entry
\* being deleted
NextOverlap ==
    \/ \E q \in QuestionEntries : Seed(q)
    \/ \E id \in Present, a \in Answers : SetAnswer(id, a)
    \/ \E id \in Present, call \in Calls : BeginAnalyze(id, call)
    \/ \E request \in pending, reply \in PassReplies : EndAnalyze(request, reply)

SpecOverlap == Init /\ [][NextOverlap]_vars

\* C27: when two analyze_reflection_by_id(id) calls on the same answered
\* entry overlap, both having passed the already-analyzed guard before either
\* applies its reply, the entry ends with the children of exactly one reply:
\* the call that applies second onto an entry the first has analysed does not
\* leave the children of both in children_ids.
OverlappingAnalysesKeepOne ==
    [][ (/\ last'.op = "analyze_end"
         /\ last'.ret
         /\ last'.reply.beliefs # <<>>
         /\ AlreadyAnalyzed(reflection_entries[last'.id])
         /\ Children(last'.id) # {})
            => LET after == Range(reflection_entries'[last'.id].children_ids)
               IN \/ after = Children(last'.id)
                  \/ after \cap Children(last'.id) = {}
      ]_vars

(***************************************************************************)
(* The child relation is a forest                                          *)
(***************************************************************************)
\* the entries reached from x in at least one and at most k steps down
\* children_ids
RECURSIVE BelowWithin(_, _)
BelowWithin(x, k) ==
    IF k = 0 \/ x \notin Present THEN {}
    ELSE Children(x) \cup UNION { BelowWithin(c, k - 1) : c \in Children(x) }

\* C28: in every state reached by seeding, storing answers, analysing and
\* deleting, the child relation has no cycle, and every id occurs in at most
\* one children_ids list and at most once in it.
ChildRelationIsForest ==
    /\ \A x \in Present : x \notin BelowWithin(x, MaxNodes)
    /\ \A p, q \in Present : p # q => Children(p) \cap Children(q) = {}
    /\ \A p \in Present :
          \A i, j \in DOMAIN reflection_entries[p].children_ids :
              reflection_entries[p].children_ids[i] = reflection_entries[p].children_ids[j]
                  => i = j

\* a deletion has moved a child into the list of its grandparent, where it
\* stands once
MovedIntoOneList ==
    /\ last.op = "delete"
    /\ last.ret
    /\ last.id \notin Present
    /\ \E c \in Range(last.children) :
          /\ Linked(c)
          /\ Cardinality({ p \in Present : c \in Children(p) }) = 1

(***************************************************************************)
(* Requests and the rows of other users                                    *)
(***************************************************************************)
\* C29: a PUT /reflections/ or DELETE /reflections/{id} made by user U
\* leaves every reflection of another user as it was, parent_id included,
\* also when such a reflection has parent_id naming a reflection of U.
RequestsKeepOthersRows ==
    [][ last'.op \in {"http_put", "http_delete"} =>
          \A other \in DOMAIN rows :
              rows[other].user_id # last'.who =>
                  /\ other \in DOMAIN rows'
                  /\ rows'[other] = rows[other] ]_vars

(***************************************************************************)
(* The JournalManager of models.py                                         *)
(***************************************************************************)
\* This manager keeps the tree in two attributes, entries and
\* original_entry_id, as the ReflectionManager does; its actions hold them in
\* reflection_entries and original_entry_id.

\* get_parent(child_id): self.get_entry(self.entries[child_id].parent_id)
get_parent(entries, child_id) ==
    IF entries[child_id].parent_id \in DOMAIN entries
    THEN entries[child_id].parent_id
    ELSE NoId

\* the loop of delete_entry while the deleted entry has a parent:
\* child.parent_id = parent.id, and nothing else
RECURSIVE AdoptChildren(_, _, _)
AdoptChildren(entries, parent, children) ==
    IF children = <<>> THEN entries
    ELSE AdoptChildren([entries EXCEPT ![Head(children)].parent_id = entries[parent].id],
                       parent, Tail(children))

RECURSIVE delete_entry(_, _)
RECURSIVE DeleteEntries(_, _)

\* the loop of delete_entry while the deleted entry has no parent:
\* self.delete_entry(child.id) for each child, ending at the first that raises
DeleteEntries(entries, children) ==
    IF children = <<>> THEN [entries |-> entries, raised |-> FALSE]
    ELSE LET first == delete_entry(entries, Head(children))
         IN IF first.raised THEN first
            ELSE DeleteEntries(first.entries, Tail(children))

\* delete_entry(entry_id): the dict after the call, and whether
\* parent.children_ids.remove(entry_id) raised ValueError
delete_entry(entries, entry_id) ==
    IF entry_id \notin DOMAIN entries THEN [entries |-> entries, raised |-> FALSE]
    ELSE LET parent == get_parent(entries, entry_id)
             children == entries[entry_id].children_ids
         IN IF parent # NoId
            THEN IF entry_id \notin Range(entries[parent].children_ids)
                 THEN [entries |-> entries, raised |-> TRUE]
                 ELSE LET removed == [entries EXCEPT ![parent].children_ids =
                                                         Remove(@, entry_id)]
                      IN [entries |-> Del(AdoptChildren(removed, parent, children), entry_id),
                          raised |-> FALSE]
            ELSE LET emptied == DeleteEntries(entries, children)
                 IN IF emptied.raised THEN emptied
                    ELSE [entries |-> Del(emptied.entries, entry_id), raised |-> FALSE]

\* upsert_entry(ReflectionEntry(question=...)): a new entry without parent
UpsertEntry(q) ==
    /\ nextId <= MaxNodes
    /\ original_entry_id' = UpsertRoot(nextId)
    /\ reflection_entries' = Put(reflection_entries, nextId, RootEntry(nextId, q))
    /\ nextId' = nextId + 1
    /\ last' = [Quiet EXCEPT !.op = "upsert_entry", !.id = nextId, !.ret = TRUE]
    /\ UNCHANGED outside

\* entry = get_entry(id); entry.answer = a; upsert_entry(entry)
UpsertAnswer(id, a) ==
    /\ id \in DOMAIN reflection_entries
    /\ original_entry_id' = UpsertRoot(id)
    /\ reflection_entries' =
           Put(reflection_entries, id, [reflection_entries[id] EXCEPT !.answer = a])
    /\ UNCHANGED nextId
    /\ last' = [Quiet EXCEPT !.op = "upsert_entry", !.id = id, !.ret = TRUE]
    /\ UNCHANGED outside

\* analyze_entry(entry_id), the client answering `reply` if it is called
AnalyzeEntry(id, reply) ==
    LET called == id \in DOMAIN reflection_entries /\ Truthy(reflection_entries[id].answer)
    IN /\ called => nextId + Len(Built(reply.beliefs)) - 1 <= MaxNodes
       /\ ~called => reply = NoAnalysis
       /\ reflection_entries' =
              IF called THEN ApplyAnalysis(reflection_entries, id, reply)
              ELSE reflection_entries
       /\ nextId' = IF called /\ reply.ok THEN nextId + Len(Built(reply.beliefs)) ELSE nextId
       /\ UNCHANGED original_entry_id
       /\ last' = [Quiet EXCEPT !.op = "analyze_entry", !.id = id,
                                !.ret = (called /\ reply.ok), !.called = called,
                                !.reply = reply]
       /\ UNCHANGED outside

\* delete_entry(entry_id)
DeleteEntry(id) ==
    LET done == delete_entry(reflection_entries, id)
    IN /\ reflection_entries' = done.entries
       /\ UNCHANGED <<original_entry_id, nextId>>
       /\ last' = [Quiet EXCEPT !.op = "delete_entry", !.id = id,
                                !.ret = (id \in DOMAIN reflection_entries /\ ~done.raised),
                                !.raised = done.raised,
                                !.children = IF id \in DOMAIN reflection_entries
                                             THEN reflection_entries[id].children_ids
                                             ELSE <<>>]
       /\ UNCHANGED outside

\* get_report(entry_id)
ReportEntry(id) ==
    /\ last' = [Quiet EXCEPT !.op = "report_entry", !.id = id,
                             !.text = get_recursive_report(reflection_entries, id, TopPrefix)]
    /\ UNCHANGED <<manager, outside>>

NextEntries ==
    \/ \E q \in QuestionEntries : UpsertEntry(q)
    \/ \E id \in Present, a \in Answers : UpsertAnswer(id, a)
    \/ \E id \in Present, reply \in PassReplies : AnalyzeEntry(id, reply)
    \/ \E id \in ArgIds : DeleteEntry(id)
    \/ \E id \in Present : ReportEntry(id)

SpecEntries == Init /\ [][NextEntries]_vars

\* C30: in the JournalManager of models.py, delete_entry of a present entry B
\* whose parent A is present leaves every former child C of B with
\* C.parent_id = A.id and C.id in A.children_ids, so that get_children(A)
\* returns C and get_report(A) renders an answered C below an answered A.
DeleteEntryAdoptsChildren ==
    [][ (/\ last'.op = "delete_entry"
         /\ last'.ret
         /\ get_parent(reflection_entries, last'.id) # NoId)
            => LET A == get_parent(reflection_entries, last'.id)
               IN \A C \in Range(last'.children) :
                     /\ C \in DOMAIN reflection_entries'
                     /\ reflection_entries'[C].parent_id = A
                     /\ C \in Range(reflection_entries'[A].children_ids)
                     /\ (Truthy(reflection_entries'[A].answer)
                           /\ Truthy(reflection_entries'[C].answer))
                        => Contains(get_recursive_report(reflection_entries', A, TopPrefix),
                                    OwnText(reflection_entries'[C], Deeper(TopPrefix)))
      ]_vars

====
